---- MODULE Spec2Model ----
(***************************************************************************)
(* A model of tradervue-conv: the CQG fill report converter                *)
(* (src/converters/cqg_fill_report.rs) and the command line flow around it *)
(* (src/main.rs, src/converters/mod.rs).                                   *)
(*                                                                         *)
(* A Rust String / &str is a sequence of one-character strings, so that    *)
(* trim, split, starts_with, parse and format! are computed character by   *)
(* character.  A grid (Vec<Vec<String>>) is a sequence of rows, a row a    *)
(* sequence of cells.  Rust indices are 0-based, TLA+ sequences 1-based:   *)
(* the model keeps Rust's 0-based indices in every value it stores and     *)
(* adds 1 where it indexes a sequence.                                     *)
(***************************************************************************)
EXTENDS Integers, Sequences, FiniteSets, TLC

VARIABLES
    pc,               \* position: of the call under check, or in handle_convert
    overflow_checks,  \* build profile: TRUE = integer overflow panics, FALSE = wraps
    arg,              \* the argument of the function under check
    ret,              \* its result
    rows,             \* handle_convert: the grid parse_xlsx returned
    csv_rows,         \* handle_convert: the result of convert
    out_file,         \* the contents of the output path on disk
    visited           \* history: the 0-based indices of the rows convert handed to convert_row

vars == <<pc, overflow_checks, arg, ret, rows, csv_rows, out_file, visited>>

----------------------------------------------------------------------------
(* Result<T, Box<dyn Error>>, plus the abnormal outcome (a panic). *)

Ok(v) == [tag |-> "Ok", val |-> v, msg |-> ""]

Err(m) == [tag |-> "Err", val |-> <<>>, msg |-> m]

Panic(m) == [tag |-> "Panic", val |-> <<>>, msg |-> m]

NoResult == [tag |-> "None", val |-> <<>>, msg |-> ""]

----------------------------------------------------------------------------
(* Strings. *)

WhiteSpace == {" ", "\t"}

Digits == <<"0", "1", "2", "3", "4", "5", "6", "7", "8", "9">>

IsDigit(c) == \E d \in 1..10 : Digits[d] = c

DigitVal(c) == (CHOOSE d \in 1..10 : Digits[d] = c) - 1

RECURSIVE TrimStart(_)
TrimStart(s) ==
    IF s # <<>> /\ Head(s) \in WhiteSpace THEN TrimStart(Tail(s)) ELSE s

RECURSIVE TrimEnd(_)
TrimEnd(s) ==
    IF s # <<>> /\ s[Len(s)] \in WhiteSpace
    THEN TrimEnd(SubSeq(s, 1, Len(s) - 1))
    ELSE s

\* str::trim
Trim(s) == TrimEnd(TrimStart(s))

\* str::starts_with
StartsWith(s, p) == Len(s) >= Len(p) /\ SubSeq(s, 1, Len(p)) = p

\* str::matches(c).count()
CountChar(s, c) == Cardinality({i \in 1..Len(s) : s[i] = c})

\* str::split(c): the pieces between the occurrences of c, empty pieces kept;
\* `cur` is the piece being read.
RECURSIVE SplitFrom(_, _, _)
SplitFrom(s, c, cur) ==
    IF s = <<>> THEN <<cur>>
    ELSE IF Head(s) = c THEN <<cur>> \o SplitFrom(Tail(s), c, <<>>)
    ELSE SplitFrom(Tail(s), c, Append(cur, Head(s)))

Split(s, c) == SplitFrom(s, c, <<>>)

\* str::split_whitespace: the maximal runs of non-whitespace characters.
RECURSIVE SplitWsFrom(_, _)
SplitWsFrom(s, cur) ==
    IF s = <<>> THEN (IF cur = <<>> THEN <<>> ELSE <<cur>>)
    ELSE IF Head(s) \in WhiteSpace
         THEN (IF cur = <<>> THEN <<>> ELSE <<cur>>) \o SplitWsFrom(Tail(s), <<>>)
         ELSE SplitWsFrom(Tail(s), Append(cur, Head(s)))

SplitWhitespace(s) == SplitWsFrom(s, <<>>)

\* str::to_uppercase, on the letters the model's inputs hold.
UpperChar(c) ==
    CASE c = "a" -> "A"
      [] c = "p" -> "P"
      [] c = "m" -> "M"
      [] c = "x" -> "X"
      [] OTHER -> c

ToUppercase(s) == [i \in 1..Len(s) |-> UpperChar(s[i])]

----------------------------------------------------------------------------
(* i32: parse and format!("{:02}"). *)

I32Max == 2147483647

I32Min == -I32Max - 1

\* The digits of an i32, read left to right as <i32 as FromStr> does: the
\* accumulator is multiplied by 10 and the digit added (sign > 0) or
\* subtracted (sign < 0), each checked for overflow.
RECURSIVE ParseDigits(_, _, _)
ParseDigits(s, sign, acc) ==
    IF s = <<>> THEN Ok(acc)
    ELSE IF ~IsDigit(Head(s)) THEN Err("invalid digit found in string")
    ELSE LET d == DigitVal(Head(s)) IN
         IF sign > 0
         THEN IF acc > I32Max \div 10 \/ acc * 10 > I32Max - d
              THEN Err("number too large to fit in target type")
              ELSE ParseDigits(Tail(s), sign, acc * 10 + d)
         ELSE IF acc < -(I32Max \div 10) \/ acc * 10 < I32Min + d
              THEN Err("number too small to fit in target type")
              ELSE ParseDigits(Tail(s), sign, acc * 10 - d)

\* str::parse::<i32>
ParseI32(s) ==
    IF s = <<>> THEN Err("cannot parse integer from empty string")
    ELSE IF Head(s) \in {"+", "-"}
         THEN IF Tail(s) = <<>> THEN Err("invalid digit found in string")
              ELSE ParseDigits(Tail(s), IF Head(s) = "-" THEN -1 ELSE 1, 0)
         ELSE ParseDigits(s, 1, 0)

\* The decimal digits of n >= 0.
RECURSIVE NatToStr(_)
NatToStr(n) ==
    IF n < 10 THEN <<Digits[n + 1]>>
    ELSE Append(NatToStr(n \div 10), Digits[(n % 10) + 1])

\* Display of an i32.
I32ToStr(n) ==
    IF n >= 0 THEN NatToStr(n)
    ELSE IF n = I32Min THEN <<"-">> \o NatToStr(I32Max \div 10) \o <<"8">>
    ELSE <<"-">> \o NatToStr(-n)

\* format!("{:02}", n): at least two characters, padded with zeros after the sign.
Format02(n) ==
    LET s == I32ToStr(n) IN
    IF Len(s) >= 2 THEN s ELSE <<"0">> \o s

\* hour += 12 on an i32: a panic with overflow checks, two's complement wrap without.
AddTwelve(hour, checks) ==
    IF hour <= I32Max - 12 THEN Ok(hour + 12)
    ELSE IF checks THEN Panic("attempt to add with overflow")
    ELSE Ok((hour - I32Max) + 11 + I32Min)

----------------------------------------------------------------------------
(* convert_time (cqg_fill_report.rs 182-224). *)

convert_time(time_str_in, checks) ==
    LET time_str == Trim(time_str_in) IN
    IF CountChar(time_str, ":") = 2 THEN Ok(time_str)
    ELSE
    LET parts == SplitWhitespace(time_str) IN
    IF parts = <<>> THEN Err("Empty time string")
    ELSE
    LET time_part == parts[1]
        time_components == Split(time_part, ":")
    IN
    IF Len(time_components) < 2 THEN Err("Invalid time format")
    ELSE
    LET hour0 == ParseI32(time_components[1]) IN
    IF hour0.tag = "Err" THEN hour0
    ELSE
    LET minute == ParseI32(time_components[2]) IN
    IF minute.tag = "Err" THEN minute
    ELSE
    LET second == IF Len(time_components) >= 3
                  THEN ParseI32(time_components[3])
                  ELSE Ok(0)
    IN
    IF second.tag = "Err" THEN second
    ELSE
    LET meridiem == IF Len(parts) > 1 THEN ToUppercase(parts[2]) ELSE <<>>
        hour == IF Len(parts) > 1 /\ meridiem = <<"P", "M">> /\ hour0.val # 12
                THEN AddTwelve(hour0.val, checks)
                ELSE IF Len(parts) > 1 /\ meridiem = <<"A", "M">> /\ hour0.val = 12
                THEN Ok(0)
                ELSE hour0
    IN
    IF hour.tag = "Panic" THEN hour
    ELSE Ok(Format02(hour.val) \o <<":">> \o Format02(minute.val)
            \o <<":">> \o Format02(second.val))

----------------------------------------------------------------------------
(* parse_date_from_first_line (cqg_fill_report.rs 58-87). *)

\* parts.iter().position(|s| s == "of"): the 1-based place of the first
\* token "of", 0 when there is none.
position_of(parts) ==
    IF \E i \in 1..Len(parts) : parts[i] = <<"o", "f">>
    THEN CHOOSE i \in 1..Len(parts) :
            /\ parts[i] = <<"o", "f">>
            /\ \A j \in 1..(i - 1) : parts[j] # <<"o", "f">>
    ELSE 0

full_year_prefix19(year) ==
    IF Len(year) = 2 THEN <<"1", "9">> \o year ELSE year

\* Lines 80-84: a year of two characters gets "20" in front, any other is kept.
full_year(year) ==
    IF Len(year) = 2 THEN <<"2", "0">> \o year ELSE year

parse_date_from_first_line(line) ==
    LET parts == SplitWhitespace(line)
        i == position_of(parts)
    IN
    IF i = 0 \/ i + 1 > Len(parts) THEN Err("Could not find date in first line")
    ELSE
    LET date_str == parts[i + 1]
        date_parts == Split(date_str, "/")
    IN
    IF Len(date_parts) # 3 THEN Err("Invalid date format")
    ELSE Ok(date_parts[1] \o <<"/">> \o date_parts[2] \o <<"/">> \o full_year(date_parts[3]))

----------------------------------------------------------------------------
(* parse_header_row (cqg_fill_report.rs 90-128). *)

\* Option<usize>::None
None == -1

Label_Time == <<"T", "i", "m", "e">>

Label_Symbol == <<"S", "y", "m", "b", "o", "l">>

Label_FillP == <<"F", "i", "l", "l", " ", "P">>

Prefix_B == <<"B", " ", "(">>

Prefix_S == <<"S", " ", "(">>

\* The body of the loop of lines 105-119 on cell i (0-based) of the row.
header_step(idx, i, col) ==
    LET col_trimmed == Trim(col) IN
    IF col_trimmed = Label_Time THEN [idx EXCEPT !.time_idx = i]
    ELSE IF col_trimmed = Label_Symbol THEN [idx EXCEPT !.symbol_idx = i]
    ELSE IF StartsWith(col_trimmed, Prefix_B) THEN [idx EXCEPT !.buy_idx = i]
    ELSE IF StartsWith(col_trimmed, Prefix_S) THEN [idx EXCEPT !.sell_idx = i]
    ELSE IF col_trimmed = Label_FillP THEN [idx EXCEPT !.fill_price_idx = i]
    ELSE idx

\* The loop of lines 105-119 from cell i (0-based) on.
RECURSIVE header_loop(_, _, _)
header_loop(header_row, i, idx) ==
    IF i >= Len(header_row) THEN idx
    ELSE header_loop(header_row, i + 1, header_step(idx, i, header_row[i + 1]))

header_result_wrong_label(idx) ==
    IF idx.time_idx = None THEN Err("Could not find 'Time' column")
    ELSE IF idx.symbol_idx = None THEN Err("Could not find 'Symbol' column")
    ELSE IF idx.buy_idx = None THEN Err("Could not find 'B (...)' column")
    ELSE IF idx.sell_idx = None THEN Err("Could not find 'B (...)' column")
    ELSE IF idx.fill_price_idx = None THEN Err("Could not find 'Fill P' column")
    ELSE Ok(idx)

\* Lines 121-127: the five ok_or(..)? in the order of the struct's fields.
header_result(idx) ==
    IF idx.time_idx = None THEN Err("Could not find 'Time' column")
    ELSE IF idx.symbol_idx = None THEN Err("Could not find 'Symbol' column")
    ELSE IF idx.buy_idx = None THEN Err("Could not find 'B (...)' column")
    ELSE IF idx.sell_idx = None THEN Err("Could not find 'S (...)' column")
    ELSE IF idx.fill_price_idx = None THEN Err("Could not find 'Fill P' column")
    ELSE Ok(idx)

parse_header_row(header_row) ==
    header_result(header_loop(header_row, 0,
        [time_idx |-> None, symbol_idx |-> None, buy_idx |-> None,
         sell_idx |-> None, fill_price_idx |-> None]))

----------------------------------------------------------------------------
(* convert_row (cqg_fill_report.rs 131-179). *)

\* row.get(i) then unwrap_or(""): the cell at 0-based index i, "" when the
\* row is shorter.
cell_or_empty(row, i) == IF i + 1 <= Len(row) THEN row[i + 1] ELSE <<>>

side_and_quantity_sell_first(buy_qty, sell_qty) ==
    IF sell_qty # <<>> /\ sell_qty # <<"0">> THEN Ok(<<<<"S", "e", "l", "l">>, sell_qty>>)
    ELSE IF buy_qty # <<>> /\ buy_qty # <<"0">> THEN Ok(<<<<"B", "u", "y">>, buy_qty>>)
    ELSE Err("Could not determine side: both B and S columns are empty or zero")

\* Lines 157-163: the pair (side, quantity).
side_and_quantity(buy_qty, sell_qty) ==
    IF buy_qty # <<>> /\ buy_qty # <<"0">> THEN Ok(<<<<"B", "u", "y">>, buy_qty>>)
    ELSE IF sell_qty # <<>> /\ sell_qty # <<"0">> THEN Ok(<<<<"S", "e", "l", "l">>, sell_qty>>)
    ELSE Err("Could not determine side: both B and S columns are empty or zero")

convert_row(row, date, indices, checks) ==
    LET time == convert_time(cell_or_empty(row, indices.time_idx), checks) IN
    IF time.tag # "Ok" THEN time
    ELSE
    LET symbol == Trim(cell_or_empty(row, indices.symbol_idx))
        buy_qty == Trim(cell_or_empty(row, indices.buy_idx))
        sell_qty == Trim(cell_or_empty(row, indices.sell_idx))
        sq == side_and_quantity(buy_qty, sell_qty)
    IN
    IF sq.tag # "Ok" THEN sq
    ELSE
    LET price == Trim(cell_or_empty(row, indices.fill_price_idx)) IN
    Ok(<<date, time.val, symbol, sq.val[2], price, sq.val[1]>>)

----------------------------------------------------------------------------
(* find_data_end_index and convert (cqg_fill_report.rs 4-55). *)

Disclaimer == <<"D", "i", "s", "c", "l", "a", "i", "m", "e", "r">>

\* The CSV header pushed at lines 12-19.
CsvHeader ==
    << <<"D", "a", "t", "e">>, <<"T", "i", "m", "e">>, <<"S", "y", "m", "b", "o", "l">>,
       <<"Q", "u", "a", "n", "t", "i", "t", "y">>, <<"P", "r", "i", "c", "e">>,
       <<"S", "i", "d", "e">> >>

\* A plain subtraction without overflow checks: below zero it wraps to a
\* value beyond the length of any grid.
saturating_sub_wrapping(a, b) == IF a >= b THEN a - b ELSE I32Max + (a - b) + 1

\* usize::saturating_sub
saturating_sub(a, b) == IF a >= b THEN a - b ELSE 0

\* Line 48: the test of one row.
starts_with_disclaimer(row) == row # <<>> /\ StartsWith(Trim(row[1]), Disclaimer)

\* The reversed scan of lines 47-52 over the rows of 0-based index < n.
RECURSIVE find_rev(_, _)
find_rev(grid, n) ==
    IF n = 0 THEN Len(grid)
    ELSE IF starts_with_disclaimer(grid[n]) THEN saturating_sub(n - 1, 1)
    ELSE find_rev(grid, n - 1)

find_data_end_index_first(grid) ==
    IF \E n \in 1..Len(grid) : starts_with_disclaimer(grid[n])
    THEN saturating_sub((CHOOSE n \in 1..Len(grid) :
                            /\ starts_with_disclaimer(grid[n])
                            /\ \A k \in 1..(n - 1) : ~starts_with_disclaimer(grid[k])) - 1, 1)
    ELSE Len(grid)

find_data_end_index_no_separator(grid) ==
    IF \E n \in 1..Len(grid) : starts_with_disclaimer(grid[n])
    THEN (CHOOSE n \in 1..Len(grid) :
            /\ starts_with_disclaimer(grid[n])
            /\ \A k \in (n + 1)..Len(grid) : ~starts_with_disclaimer(grid[k])) - 1
    ELSE Len(grid)

find_data_end_index(grid) == find_rev(grid, Len(grid))

\* Line 33: the test of a row to skip.
is_blank(row) == row = <<>> \/ \A k \in 1..Len(row) : Trim(row[k]) = <<>>

\* The state of the loop of lines 32-39: the rows pushed so far, how the
\* function left the loop early (NoResult while it has not), and, as a
\* history of the run, the 0-based indices of the rows handed to convert_row.
loop_body_skip_errors(st, i, row, date, indices, checks) ==
    IF is_blank(row) THEN st
    ELSE LET csv_row == convert_row(row, date, indices, checks) IN
         IF csv_row.tag # "Ok"
         THEN [st EXCEPT !.visited = Append(@, i)]
         ELSE [st EXCEPT !.visited = Append(@, i), !.result = Append(@, csv_row.val)]

\* Lines 33-38: the body of the loop on row i.
loop_body(st, i, row, date, indices, checks) ==
    IF is_blank(row) THEN st
    ELSE LET csv_row == convert_row(row, date, indices, checks) IN
         IF csv_row.tag # "Ok"
         THEN [st EXCEPT !.visited = Append(@, i), !.exit = csv_row]
         ELSE [st EXCEPT !.visited = Append(@, i), !.result = Append(@, csv_row.val)]

\* rows.iter().skip(2).take(n): the rows of 0-based index i .. stop-1.
RECURSIVE convert_loop(_, _, _, _, _, _, _)
convert_loop(grid, i, stop, date, indices, checks, st) ==
    IF i >= stop \/ st.exit.tag # "None" THEN st
    ELSE convert_loop(grid, i + 1, stop, date, indices, checks,
                      loop_body(st, i, grid[i + 1], date, indices, checks))

Min(a, b) == IF a <= b THEN a ELSE b

\* The call of convert, with the history of the rows it visited.
convert_run(grid, checks) ==
    LET early(r) == [result |-> <<>>, exit |-> r, visited |-> <<>>] IN
    IF Len(grid) < 2
    THEN early(Err("File must contain at least 2 rows (date line and header)"))
    ELSE IF grid[1] = <<>>
    THEN early(Panic("index out of bounds: the len is 0 but the index is 0"))
    ELSE
    LET date == parse_date_from_first_line(grid[1][1]) IN
    IF date.tag # "Ok" THEN early(date)
    ELSE
    LET header_indices == parse_header_row(grid[2]) IN
    IF header_indices.tag # "Ok" THEN early(header_indices)
    ELSE
    LET data_end_idx == find_data_end_index(grid)
        n == Min(saturating_sub(data_end_idx, 2), Len(grid) - 2)
    IN
    convert_loop(grid, 2, 2 + n, date.val, header_indices.val, checks,
                 [result |-> <<CsvHeader>>, exit |-> NoResult, visited |-> <<>>])

convert(grid, checks) ==
    LET st == convert_run(grid, checks) IN
    IF st.exit.tag = "None" THEN Ok(st.result) ELSE st.exit

----------------------------------------------------------------------------
(* Inputs of convert_time: time cells put together from an hour, a minute, *)
(* an optional second and an optional meridiem token, each drawn from      *)
(* well-formed and malformed texts.                                        *)

\* The output path: whether a file is there, and the records it holds.
NoFile == [exists |-> FALSE, content |-> <<>>]

HourTexts ==
    { NatToStr(h) : h \in {0, 7, 9, 12, 14, 23, 25} }
    \cup { <<"0", "9">>, <<>>, <<"-", "1">>, <<"+", "3">>, <<"x">>,
           I32ToStr(I32Max), I32ToStr(I32Max - 12) }

MinuteTexts == { <<"3", "0">>, <<"0", "5">>, <<"5">>, <<"6", "0">>, <<>>, <<"3", "x">> }

SecondTexts == { <<>>, <<":", "1", "5">>, <<":", "0", "0">>, <<":", "7">>, <<":", "6", "1">> }

MeridiemTexts ==
    { <<>>, <<" ", "A", "M">>, <<" ", "P", "M">>, <<" ", "p", "m">>,
      <<" ", "a", "m">>, <<"P", "M">>, <<" ", "X", "M">>, <<" ", "\t", "P", "M", " ">> }

TimeCells ==
    { h \o <<":">> \o m \o s \o mer :
        h \in HourTexts, m \in MinuteTexts, s \in SecondTexts, mer \in MeridiemTexts }
    \cup { <<" ">> \o h \o <<":">> \o m \o <<" ">> :
             h \in HourTexts, m \in MinuteTexts }
    \cup { <<>>, <<" ", " ">>, <<"9", "3", "0">>, <<"A", "M">>,
           <<"1", "4", ":", "2", "2", ":", "1", "0">>,
           <<"1", ":", "2", ":", "3", ":", "4">> }

InitCommon ==
    /\ rows = <<>>
    /\ csv_rows = NoResult
    /\ out_file = NoFile
    /\ ret = NoResult
    /\ visited = <<>>

InitTime ==
    /\ pc = "call"
    /\ overflow_checks \in BOOLEAN
    /\ arg \in TimeCells
    /\ InitCommon

call_convert_time ==
    /\ pc = "call"
    /\ ret' = convert_time(arg, overflow_checks)
    /\ pc' = "return"
    /\ UNCHANGED <<overflow_checks, arg, rows, csv_rows, out_file, visited>>

NextTime == call_convert_time

SpecTime == InitTime /\ [][NextTime]_vars

----------------------------------------------------------------------------
(* C1 *)

\* A time cell "H:MM:SS AM" or "H:MM:SS PM" as the report writes it.
MeridiemCell(h, m, s, mer) ==
    NatToStr(h) \o <<":">> \o Format02(m) \o <<":">> \o Format02(s) \o <<" ">> \o mer

\* The 24-hour value of a 12-hour clock time.
Hour24(h, mer) ==
    IF mer = <<"P", "M">> THEN (IF h = 12 THEN 12 ELSE h + 12)
    ELSE (IF h = 12 THEN 0 ELSE h)

\* C1: convert_time turns every cell of the form H:MM:SS AM / H:MM:SS PM
\* into the zero-padded 24-hour HH:MM:SS text, without the meridiem token
\* ("9:30:15 AM" gives "09:30:15", "12:05:00 AM" gives "00:05:00",
\* "12:30:00 PM" gives "12:30:00"), and leaves "14:22:10" as it is.
C1_MeridiemWithSeconds ==
    pc = "return" =>
        /\ \A h \in {7, 9, 12}, m \in {5, 30}, s \in {0, 15}, mer \in {<<"A", "M">>, <<"P", "M">>} :
              arg = MeridiemCell(h, m, s, mer) =>
                  ret = Ok(Format02(Hour24(h, mer)) \o <<":">> \o Format02(m)
                           \o <<":">> \o Format02(s))
        /\ arg = <<"1", "4", ":", "2", "2", ":", "1", "0">> => ret = Ok(arg)

----------------------------------------------------------------------------
(* Inputs of parse_date_from_first_line: first lines put together from an  *)
(* optional lead, a token in the place of "of", a date token of two to     *)
(* four slash-separated parts (or none) and an optional rest.              *)

SeqsUpTo(S, n) == UNION { [1..k -> S] : k \in 0..n }

OfTexts == { <<"o", "f">>, <<"O", "f">>, <<"o", "f", "f">>, <<>> }

MonthTexts == { <<"1", "2">>, <<"1">>, <<>> }

DayTexts == { <<"1", "0">>, <<"5">> }

YearTexts ==
    { <<"2", "5">>, <<"2", "0", "2", "5">>, <<"5">>, <<"1", "2", "5">>, <<>>,
      <<"a", "b">>, <<"2", "0", "2", "5", "1">> }

DateTexts ==
    { m \o <<"/">> \o d \o <<"/">> \o y : m \in MonthTexts, d \in DayTexts, y \in YearTexts }
    \cup { m \o <<"/">> \o d : m \in MonthTexts, d \in DayTexts }
    \cup { m \o <<"/">> \o d \o <<"/">> \o y \o <<"/">> \o y :
             m \in MonthTexts, d \in DayTexts, y \in {<<"2", "5">>} }
    \cup { <<>> }

DateLines ==
    { lead \o o \o <<" ">> \o d \o rest :
        lead \in { <<>>, <<"a", "s", " ">> },
        o \in OfTexts,
        d \in DateTexts,
        rest \in { <<>>, <<"\t", "8", ":", "2", "0", " ", "P", "M">> } }
    \cup { <<"o", "f", " ", "o", "f", " ", "1", "/", "5", "/", "2", "5">> }

InitDate ==
    /\ pc = "call"
    /\ overflow_checks = FALSE
    /\ arg \in DateLines
    /\ InitCommon

call_parse_date_from_first_line ==
    /\ pc = "call"
    /\ ret' = parse_date_from_first_line(arg)
    /\ pc' = "return"
    /\ UNCHANGED <<overflow_checks, arg, rows, csv_rows, out_file, visited>>

NextDate == call_parse_date_from_first_line

SpecDate == InitDate /\ [][NextDate]_vars

----------------------------------------------------------------------------
(* Inputs of parse_header_row: every row of at most MaxCols cells drawn    *)
(* from the five labels (one padded with whitespace), a near miss and an   *)
(* empty cell.                                                             *)

MaxCols == 5

HeaderCells ==
    { Label_Time,
      <<" ">> \o Label_Symbol \o <<"\t">>,
      Prefix_B \o <<"1", ")">>,
      Prefix_S,
      Label_FillP,
      Label_FillP \o <<"x">>,
      <<>> }

InitHeader ==
    /\ pc = "call"
    /\ overflow_checks = FALSE
    /\ arg \in SeqsUpTo(HeaderCells, MaxCols)
    /\ InitCommon

call_parse_header_row ==
    /\ pc = "call"
    /\ ret' = parse_header_row(arg)
    /\ pc' = "return"
    /\ UNCHANGED <<overflow_checks, arg, rows, csv_rows, out_file, visited>>

NextHeader == call_parse_header_row

SpecHeader == InitHeader /\ [][NextHeader]_vars

----------------------------------------------------------------------------
(* Inputs of convert_row: rows of up to five cells (time, symbol, buy      *)
(* quantity, sell quantity, price), cut short at every length, under the   *)
(* column order of the report and under a permuted one.                    *)

T_930AM == <<"9", ":", "3", "0", " ", "A", "M">>

T_93015PM == <<"9", ":", "3", "0", ":", "1", "5", " ", "P", "M">>

T_1405 == <<"1", "4", ":", "0", "5">>

RowTimeTexts == { T_930AM, T_93015PM, T_1405, <<"x">>, <<>> }

RowQtyTexts == { <<>>, <<"0">>, <<"2">>, <<" ", "3", " ">>, <<" ", "0">>, <<"0", "0">>, <<" ">> }

RowInputs ==
    { SubSeq(<<t, <<" ", "E", "S">>, b, s, <<"1", "0", "0">>>>, 1, n) :
        t \in RowTimeTexts, b \in RowQtyTexts, s \in RowQtyTexts, n \in 0..5 }

IndexInputs ==
    { [time_idx |-> 0, symbol_idx |-> 1, buy_idx |-> 2, sell_idx |-> 3, fill_price_idx |-> 4],
      [time_idx |-> 0, symbol_idx |-> 1, buy_idx |-> 3, sell_idx |-> 2, fill_price_idx |-> 6] }

SomeDate == <<"1", "/", "5", "/", "2", "0", "2", "5">>

InitRow ==
    /\ pc = "call"
    /\ overflow_checks = FALSE
    /\ arg \in [row : RowInputs, date : {SomeDate}, indices : IndexInputs]
    /\ InitCommon

call_convert_row ==
    /\ pc = "call"
    /\ ret' = convert_row(arg.row, arg.date, arg.indices, overflow_checks)
    /\ pc' = "return"
    /\ UNCHANGED <<overflow_checks, arg, rows, csv_rows, out_file, visited>>

NextRow == call_convert_row

SpecRow == InitRow /\ [][NextRow]_vars

----------------------------------------------------------------------------
(* C7 *)

FirstOf(toks) == CHOOSE i \in 1..Len(toks) :
                    toks[i] = <<"o", "f">> /\ \A j \in 1..(i - 1) : toks[j] # <<"o", "f">>

\* The first line holds a token "of" followed by a token of exactly three
\* slash-separated parts.
HasDateToken(line) ==
    LET toks == SplitWhitespace(line) IN
    /\ \E i \in 1..Len(toks) : toks[i] = <<"o", "f">>
    /\ FirstOf(toks) < Len(toks)
    /\ Len(Split(toks[FirstOf(toks) + 1], "/")) = 3

DateParts(line) ==
    LET toks == SplitWhitespace(line) IN Split(toks[FirstOf(toks) + 1], "/")

AllDigits(s, n) == Len(s) = n /\ \A k \in 1..Len(s) : IsDigit(s[k])

\* What C7 says of every first line but for its last clause.
DateExtraction ==
    /\ ret.tag = "Err" <=> ~HasDateToken(arg)
    /\ ret.tag \in {"Ok", "Err"}
    /\ HasDateToken(arg) =>
         LET p == DateParts(arg)
             out == Split(ret.val, "/")
         IN
         /\ Len(out) = 3
         /\ out[1] = p[1]
         /\ out[2] = p[2]
         /\ Len(p[3]) = 2 => out[3] = <<"2", "0">> \o p[3]
         /\ Len(p[3]) = 4 => out[3] = p[3]

----------------------------------------------------------------------------
(* C6 *)

HasExact(row, label) == \E k \in 1..Len(row) : Trim(row[k]) = label

HasPrefix(row, p) == \E k \in 1..Len(row) : StartsWith(Trim(row[k]), p)

HasAllFive(row) ==
    /\ HasExact(row, Label_Time)
    /\ HasExact(row, Label_Symbol)
    /\ HasExact(row, Label_FillP)
    /\ HasPrefix(row, Prefix_B)
    /\ HasPrefix(row, Prefix_S)

\* C6: parse_header_row succeeds exactly when the row holds, after trimming,
\* the cells "Time", "Symbol" and "Fill P" and cells starting with "B (" and
\* "S ("; the indices it returns are those of such cells; when it fails the
\* message names a label the row does not hold, and a row that lacks only
\* "Fill P" fails with the message naming "Fill P".
C6_HeaderResolution ==
    pc = "return" =>
        /\ ret.tag = "Ok" <=> HasAllFive(arg)
        /\ ret.tag \in {"Ok", "Err"}
        /\ ret.tag = "Ok" =>
             /\ Trim(arg[ret.val.time_idx + 1]) = Label_Time
             /\ Trim(arg[ret.val.symbol_idx + 1]) = Label_Symbol
             /\ Trim(arg[ret.val.fill_price_idx + 1]) = Label_FillP
             /\ StartsWith(Trim(arg[ret.val.buy_idx + 1]), Prefix_B)
             /\ StartsWith(Trim(arg[ret.val.sell_idx + 1]), Prefix_S)
        /\ ret.tag = "Err" =>
             \/ ret.msg = "Could not find 'Time' column" /\ ~HasExact(arg, Label_Time)
             \/ ret.msg = "Could not find 'Symbol' column" /\ ~HasExact(arg, Label_Symbol)
             \/ ret.msg = "Could not find 'B (...)' column" /\ ~HasPrefix(arg, Prefix_B)
             \/ ret.msg = "Could not find 'S (...)' column" /\ ~HasPrefix(arg, Prefix_S)
             \/ ret.msg = "Could not find 'Fill P' column" /\ ~HasExact(arg, Label_FillP)
        /\ ( /\ HasExact(arg, Label_Time) /\ HasExact(arg, Label_Symbol)
             /\ HasPrefix(arg, Prefix_B) /\ HasPrefix(arg, Prefix_S)
             /\ ~HasExact(arg, Label_FillP) )
           => ret.msg = "Could not find 'Fill P' column"

\* A row with the four other labels and the near miss "Fill Px" has failed
\* with the message naming "Fill P".
C6_Witness ==
    /\ pc = "return"
    /\ HasExact(arg, Label_Time) /\ HasExact(arg, Label_Symbol)
    /\ HasPrefix(arg, Prefix_B) /\ HasPrefix(arg, Prefix_S)
    /\ \E k \in 1..Len(arg) : arg[k] = Label_FillP \o <<"x">>
    /\ ret = Err("Could not find 'Fill P' column")

----------------------------------------------------------------------------
(* C5 *)

CellAt(row, i) == IF i < Len(row) THEN row[i + 1] ELSE <<>>

NonBlank(row) == \E k \in 1..Len(row) : Trim(row[k]) # <<>>

NonZero(q) == q # <<>> /\ q # <<"0">>

Buy == <<"B", "u", "y">>

Sell == <<"S", "e", "l", "l">>

\* The side and quantity C5 states for the row of the call.
SideRule ==
    LET b == Trim(CellAt(arg.row, arg.indices.buy_idx))
        s == Trim(CellAt(arg.row, arg.indices.sell_idx))
    IN
    IF NonZero(b) THEN ret.tag = "Ok" /\ ret.val[6] = Buy /\ ret.val[4] = b
    ELSE IF NonZero(s) THEN ret.tag = "Ok" /\ ret.val[6] = Sell /\ ret.val[4] = s
    ELSE ret = Err("Could not determine side: both B and S columns are empty or zero")

SideOfOutput ==
    ret.tag = "Ok" => ret.val[6] \in {Buy, Sell} /\ NonZero(ret.val[4])

\* C5 as claimed: for every non-blank data row, a buy quantity that is not
\* empty and not "0" gives Side "Buy" with that quantity, otherwise such a
\* sell quantity gives Side "Sell" with that quantity, otherwise conversion
\* fails with the ambiguous-side error; every output row has a Side of Buy
\* or Sell and a Quantity that is not empty and not "0".
C5_SideOfEveryRow ==
    pc = "return" /\ NonBlank(arg.row) => SideRule /\ SideOfOutput

\* C5 as amended: the same, for every non-blank data row whose time cell
\* convert_time accepts; a row whose time cell it rejects fails with the
\* error of the time cell.
C5_SideOfTimedRow ==
    pc = "return" /\ NonBlank(arg.row) =>
        LET time == convert_time(CellAt(arg.row, arg.indices.time_idx), overflow_checks) IN
        /\ SideOfOutput
        /\ time.tag = "Ok" => SideRule
        /\ time.tag # "Ok" => ret = time

\* A row with buy quantity " 0" and sell quantity "2" has given Sell, 2.
C5_Witness ==
    /\ pc = "return"
    /\ CellAt(arg.row, arg.indices.buy_idx) = <<" ", "0">>
    /\ CellAt(arg.row, arg.indices.sell_idx) = <<"2">>
    /\ ret.tag = "Ok" /\ ret.val[6] = Sell /\ ret.val[4] = <<"2">>

----------------------------------------------------------------------------
(* Inputs of convert: every grid of at most MaxRows rows whose row 0 is a  *)
(* date line (valid, invalid, starting with "Disclaimer", or without       *)
(* cells), whose row 1 is a header row (the report's, one whose first cell *)
(* starts with "Disclaimer", or without cells) and whose other rows are    *)
(* fills, blank rows, rows starting with "Disclaimer" and rows that do not *)
(* convert.                                                                *)

MaxRows == 5

DateLine == <<"a", "s", " ", "o", "f", " ", "1", "/", "5", "/", "2", "5", " ", "x">>

DateRows ==
    { <<DateLine>>,
      <<<<"n", "o">>>>,
      <<Disclaimer \o <<" ", "o", "f", " ", "1", "/", "5", "/", "2", "0", "2", "5">>, <<>>>>,
      <<>> }

ReportHeader ==
    <<Label_Time, Label_Symbol, Prefix_B \o <<"1", ")">>, Prefix_S \o <<"1", ")">>, Label_FillP>>

HeaderRows ==
    { ReportHeader,
      <<<<" ">> \o Disclaimer>> \o ReportHeader,
      <<>> }

ES == <<"E", "S">>

Row_Buy == <<T_930AM, ES, <<"2">>, <<"0">>, <<"1", "0", "0">>>>

Row_Sell == <<T_93015PM, <<" ", "N", "Q">>, <<>>, <<"5">>, <<"1", "0", "1">>>>

Row_Spaces == <<<<" ">>, <<>>>>

Row_Disclaimer == <<<<" ">> \o Disclaimer \o <<":">>>>

Row_DisclaimerFill == <<Disclaimer, T_1405, ES, <<"0">>, <<"3">>, <<"7">>>>

Row_Ambiguous == <<T_1405, ES>>

Row_Overflow == <<I32ToStr(I32Max) \o <<":", "0", "0", " ", "P", "M">>, ES, <<"1">>>>

DataRows ==
    { Row_Buy, Row_Sell, Row_Spaces, <<>>, Row_Disclaimer, Row_DisclaimerFill,
      Row_Ambiguous, Row_Overflow }

GridsUpTo(n) ==
    { <<>> }
    \cup { <<d>> : d \in DateRows }
    \cup { <<d, h>> \o rest :
             d \in DateRows, h \in HeaderRows, rest \in SeqsUpTo(DataRows, n - 2) }

InitConvert ==
    /\ pc = "call"
    /\ overflow_checks \in BOOLEAN
    /\ arg \in GridsUpTo(MaxRows)
    /\ InitCommon

call_convert ==
    /\ pc = "call"
    /\ ret' = convert(arg, overflow_checks)
    /\ visited' = convert_run(arg, overflow_checks).visited
    /\ pc' = "return"
    /\ UNCHANGED <<overflow_checks, arg, rows, csv_rows, out_file>>

NextConvert == call_convert

SpecConvert == InitConvert /\ [][NextConvert]_vars

----------------------------------------------------------------------------
(* handle_convert (main.rs 51-73) with parse_xlsx and write_csv            *)
(* (converters/mod.rs 14-57): the command line flow.                       *)

MaxFileRows == 4

OldFile == [exists |-> TRUE, content |-> <<<<<<"o", "l", "d">>>>>>]

Init ==
    /\ pc = "parse_xlsx"
    /\ overflow_checks \in BOOLEAN
    /\ rows = <<>>
    /\ csv_rows = NoResult
    /\ out_file \in {NoFile, OldFile}
    /\ arg = <<>>
    /\ ret = NoResult
    /\ visited = <<>>

\* parse_xlsx returns the grid of the first worksheet.
parse_xlsx_ok ==
    /\ pc = "parse_xlsx"
    /\ rows' \in GridsUpTo(MaxFileRows)
    /\ pc' = "convert"
    /\ UNCHANGED <<overflow_checks, arg, ret, csv_rows, out_file, visited>>

\* parse_xlsx fails (no file, no worksheet, a decode error): `?` returns the error.
parse_xlsx_err ==
    /\ pc = "parse_xlsx"
    /\ pc' = "exit1"
    /\ UNCHANGED <<overflow_checks, arg, ret, rows, csv_rows, out_file, visited>>

\* converters::cqg_fill_report::convert(rows)?
call_convert_in_cli ==
    /\ pc = "convert"
    /\ csv_rows' = convert(rows, overflow_checks)
    /\ visited' = convert_run(rows, overflow_checks).visited
    /\ pc' = CASE csv_rows'.tag = "Ok" -> "write_csv"
               [] csv_rows'.tag = "Err" -> "exit1"
               [] OTHER -> "abort"
    /\ UNCHANGED <<overflow_checks, arg, ret, rows, out_file>>

\* write_csv creates the file, writes every record and flushes.
write_csv_ok ==
    /\ pc = "write_csv"
    /\ out_file' = [exists |-> TRUE, content |-> csv_rows.val]
    /\ pc' = "done"
    /\ UNCHANGED <<overflow_checks, arg, ret, rows, csv_rows, visited>>

\* write_csv fails: the file could not be created (the path is as it was),
\* or a write or the flush failed after some of the records.
write_csv_err ==
    /\ pc = "write_csv"
    /\ \/ out_file' = out_file
       \/ \E k \in 0..(Len(csv_rows.val) - 1) :
             out_file' = [exists |-> TRUE, content |-> SubSeq(csv_rows.val, 1, k)]
    /\ pc' = "exit1"
    /\ UNCHANGED <<overflow_checks, arg, ret, rows, csv_rows, visited>>

Next ==
    \/ parse_xlsx_ok
    \/ parse_xlsx_err
    \/ call_convert_in_cli
    \/ write_csv_ok
    \/ write_csv_err

Spec == Init /\ [][Next]_vars

----------------------------------------------------------------------------
(* The data region as the specification words it, on 0-based row indices.  *)

DisclaimerRows(grid) ==
    { i \in 0..(Len(grid) - 1) :
        grid[i + 1] # <<>> /\ StartsWith(Trim(grid[i + 1][1]), Disclaimer) }

LastDisclaimer(grid) ==
    CHOOSE i \in DisclaimerRows(grid) : \A j \in DisclaimerRows(grid) : j <= i

\* One row before the last row starting with "Disclaimer", the end of the
\* grid when there is none.
RegionBound(grid) ==
    IF DisclaimerRows(grid) = {} THEN Len(grid) ELSE LastDisclaimer(grid) - 1

DataRegion(grid) == { k \in 2..(Len(grid) - 1) : k < RegionBound(grid) }

NonBlankRegion(grid) == { k \in DataRegion(grid) : NonBlank(grid[k + 1]) }

Visited == { visited[j] : j \in 1..Len(visited) }

\* Row 0 has a first cell with a date and row 1 resolves the five columns.
ValidTop(grid) ==
    /\ Len(grid) >= 2
    /\ grid[1] # <<>>
    /\ parse_date_from_first_line(grid[1][1]).tag = "Ok"
    /\ parse_header_row(grid[2]).tag = "Ok"

\* The conversion of row k (0-based) of the grid under its date and header.
RowResult(grid, k, checks) ==
    convert_row(grid[k + 1], parse_date_from_first_line(grid[1][1]).val,
                parse_header_row(grid[2]).val, checks)

----------------------------------------------------------------------------
(* C2 *)

\* C2 as claimed: for every row i starting with "Disclaimer", also when
\* there are several, row i-1, row i and every later row are kept out of the
\* conversion: none of them is handed to convert_row.
C2_EveryDisclaimerExcludes ==
    pc = "return" =>
        \A i \in DisclaimerRows(arg) : \A k \in Visited : k < i - 1

\* C2 as amended: with i the last row starting with "Disclaimer", row i-1,
\* row i and every later row are kept out of the conversion.
\* Every row from 2 to i-2, an earlier "Disclaimer" row included, is handed
\* to convert_row when it is not blank, unless an earlier one failed.
C2_LastDisclaimerExcludes ==
    pc = "return" /\ DisclaimerRows(arg) # {} =>
        /\ \A k \in Visited : k < LastDisclaimer(arg) - 1
        /\ ValidTop(arg) =>
              \A k \in 2..(LastDisclaimer(arg) - 2) :
                  k \in Visited <=>
                      /\ NonBlank(arg[k + 1])
                      /\ \A e \in 2..(k - 1) :
                            NonBlank(arg[e + 1]) =>
                                RowResult(arg, e, overflow_checks).tag = "Ok"

\* A grid whose last "Disclaimer" row follows two fills: the first fill was
\* converted, the second (the row before the disclaimer) was not.
C2_Witness ==
    /\ pc = "return"
    /\ DisclaimerRows(arg) = {4}
    /\ arg[3] = Row_Buy /\ arg[4] = Row_Sell
    /\ visited = <<2>>
    /\ ret.tag = "Ok" /\ Len(ret.val) = 2

----------------------------------------------------------------------------
(* C3 *)

\* C3: when convert succeeds, the result is the header row followed by one
\* 6-cell row per non-blank row of the data region, in the order of the
\* grid: convert_row was called on exactly those rows, in increasing order,
\* and the j-th output row is the conversion of the j-th of them.
C3_OneRowPerDataRow ==
    pc = "return" /\ ret.tag = "Ok" =>
        /\ ret.val[1] = << <<"D", "a", "t", "e">>, <<"T", "i", "m", "e">>,
                           <<"S", "y", "m", "b", "o", "l">>,
                           <<"Q", "u", "a", "n", "t", "i", "t", "y">>,
                           <<"P", "r", "i", "c", "e">>, <<"S", "i", "d", "e">> >>
        /\ Len(ret.val) - 1 = Cardinality(DataRegion(arg))
                              - Cardinality(DataRegion(arg) \ NonBlankRegion(arg))
        /\ Visited = NonBlankRegion(arg)
        /\ Len(visited) = Len(ret.val) - 1
        /\ \A j \in 1..(Len(visited) - 1) : visited[j] < visited[j + 1]
        /\ \A j \in 1..Len(visited) :
              /\ Len(ret.val[j + 1]) = 6
              /\ ret.val[j + 1] = RowResult(arg, visited[j], overflow_checks).val

\* A grid with a fill, a row of whitespace, an empty row and a fill has
\* given the header and two rows.
C3_Witness ==
    /\ pc = "return"
    /\ Len(arg) = 5
    /\ arg[3] = Row_Sell /\ arg[4] = Row_Spaces /\ arg[5] = Row_Buy
    /\ ret.tag = "Ok"
    /\ Len(ret.val) = 3
    /\ visited = <<2, 4>>

----------------------------------------------------------------------------
(* C8 *)

TwoDigitsBelow(s, n) ==
    /\ AllDigits(s, 2)
    /\ DigitVal(s[1]) * 10 + DigitVal(s[2]) < n

IsHHMMSS(t) ==
    /\ Len(t) = 8
    /\ t[3] = ":" /\ t[6] = ":"
    /\ TwoDigitsBelow(SubSeq(t, 1, 2), 24)
    /\ TwoDigitsBelow(SubSeq(t, 4, 5), 60)
    /\ TwoDigitsBelow(SubSeq(t, 7, 8), 60)

\* C8: when convert succeeds, the Time field of every output data row is
\* HH:MM:SS: two digits each, hour below 24, minute and second below 60,
\* and nothing after.
C8_TimeFieldIsHHMMSS ==
    pc = "return" /\ ret.tag = "Ok" =>
        \A j \in 2..Len(ret.val) : IsHHMMSS(ret.val[j][2])

----------------------------------------------------------------------------
(* C9 *)

\* C9: convert returns a success grid or an error for every grid, never a
\* panic, and the structural error for every grid of fewer than 2 rows.
C9_ConvertIsTotal ==
    pc = "return" =>
        /\ ret.tag \in {"Ok", "Err"}
        /\ Len(arg) < 2 =>
             ret = Err("File must contain at least 2 rows (date line and header)")

----------------------------------------------------------------------------
(* C10 *)

\* C10: with a valid date line and header row, a last "Disclaimer" row at
\* index 0, 1, 2 or 3 gives the header row alone; without any "Disclaimer"
\* row the data region is rows 2 to the end of the grid: each non-blank row
\* of them is handed to convert_row unless an earlier one failed.
C10_SmallOrNoDisclaimer ==
    pc = "return" /\ ValidTop(arg) =>
        /\ (DisclaimerRows(arg) # {} /\ LastDisclaimer(arg) <= 3) =>
              /\ visited = <<>>
              /\ ret.tag = "Ok"
              /\ Len(ret.val) = 1
              /\ ret.val[1] = CsvHeader
        /\ DisclaimerRows(arg) = {} =>
              \A k \in 2..(Len(arg) - 1) :
                  k \in Visited <=>
                      /\ NonBlank(arg[k + 1])
                      /\ \A e \in 2..(k - 1) :
                            NonBlank(arg[e + 1]) =>
                                RowResult(arg, e, overflow_checks).tag = "Ok"

\* A grid whose only "Disclaimer" row is row 0, with a valid date, and with
\* a fill in row 2 has given the header row alone.
C10_Witness ==
    /\ pc = "return"
    /\ ValidTop(arg)
    /\ DisclaimerRows(arg) = {0}
    /\ Len(arg) >= 3 /\ arg[3] = Row_Buy
    /\ ret = Ok(<<CsvHeader>>)

----------------------------------------------------------------------------
(* C4 *)

\* A step of the conversion returns an error: the date extraction, the
\* header resolution, or the conversion of a non-blank row of the data
\* region that the loop reaches (no row before it panics).
SomeStepFails(grid, checks) ==
    /\ Len(grid) >= 2
    /\ grid[1] # <<>>
    /\ \/ parse_date_from_first_line(grid[1][1]).tag = "Err"
       \/ /\ parse_date_from_first_line(grid[1][1]).tag = "Ok"
          /\ parse_header_row(grid[2]).tag = "Err"
       \/ /\ ValidTop(grid)
          /\ \E k \in NonBlankRegion(grid) :
                /\ RowResult(grid, k, checks).tag = "Err"
                /\ \A e \in NonBlankRegion(grid) :
                      e < k => RowResult(grid, e, checks).tag # "Panic"

\* C4: when a step of the conversion fails, whatever rows were converted
\* before, convert returns an error and no rows, handle_convert exits with
\* the error, and the output file is left as it was: the file changes only
\* in write_csv, after convert has returned a grid.
C4_NoPartialOutput ==
    /\ [](pc \in {"write_csv", "done", "exit1", "abort"} /\ SomeStepFails(rows, overflow_checks)
            => csv_rows.tag = "Err" /\ csv_rows.val = <<>> /\ pc = "exit1")
    /\ [][out_file' # out_file => pc = "write_csv" /\ csv_rows.tag = "Ok"]_vars
    /\ [][pc = "convert" /\ SomeStepFails(rows, overflow_checks)
            => pc' = "exit1" /\ out_file' = out_file]_vars

\* A grid whose first fill converted and whose second row failed: the run
\* has ended with the error and the old file untouched.
C4_Witness ==
    /\ pc = "exit1"
    /\ Len(rows) = 4
    /\ rows[3] = Row_Buy /\ rows[4] = Row_Ambiguous
    /\ visited = <<2, 3>>
    /\ csv_rows.tag = "Err"
    /\ out_file = OldFile

====
